---------------------------- MODULE Spec2Model ----------------------------
(***************************************************************************)
(* Green AI Orchestrator: the decision/scoring pipeline of                 *)
(* src/orchestrator (decision_engine.py, scoring.py, models.py).           *)
(*                                                                         *)
(* Numbers.  The program computes with floats in [0,1].  The model uses    *)
(* exact fixed-point integers: a level, weight or threshold x is the       *)
(* integer x * Scale (thousandths), a score the integer x * Scale^2        *)
(* (millionths), so that products of a level and a weight are exact.       *)
(***************************************************************************)
EXTENDS Integers, Sequences, FiniteSets, TLC

Scale == 10 ^ 3
One == Scale * Scale                 \* 1.0 as a score (millionths)
Half == Scale \div 2                 \* 0.5 as a level (thousandths)

\* ---- bounds of the exploration ----
MaxCalls == 1          \* make_decision calls per orchestrator under Spec
MaxHistorySize == 2    \* decision_history_size ranges over 1..MaxHistorySize
GridSteps == 4         \* the scoring harness draws inputs from a grid of GridSteps intervals
NumThreads == 2        \* threads calling make_decision concurrently
CallsPerThread == 2    \* make_decision calls of each thread
MantissaBits == 10     \* significant bits of the model's floats (get_statistics)
MaxReads == 4          \* reads of one SimulatedBatteryMonitor

\* ---- program constants (scaled by Scale) ----
Tol == 1                         \* 0.001, models.py validate
NetworkEdgeMin == 700            \* 0.7, decision_engine.py rule 2
DefaultThreshold == 500          \* models.py threshold = 0.5
DefaultHardEdgeBattery == 200    \* models.py hard_edge_battery = 0.2
DefaultHardCloudBattery == 800   \* models.py hard_cloud_battery = 0.8
NeutralLevel == 500              \* decision_engine.py "= 0.5  # Default"

Signals == {"battery", "network", "carbon"}

\* ExecutionMode (models.py)
EDGE_ONLY == "edge_only"
CLOUD_ONLY == "cloud_only"
HYBRID == "hybrid"
DEFERRED == "deferred"
ExecutionMode == {EDGE_ONLY, CLOUD_ONLY, HYBRID, DEFERRED}

Abs(x) == IF x < 0 THEN -x ELSE x
Max(a, b) == IF a > b THEN a ELSE b
Min(a, b) == IF a < b THEN a ELSE b

\* OrchestratorConfig.weights default_factory
DefaultWeights == [battery |-> 400, network |-> 300, carbon |-> 300]

\* sum(self.weights.values())
WeightSum(w) == w.battery + w.network + w.carbon

VARIABLES
    phase,            \* "new": before __init__; "running": constructed; "failed": __init__ raised
    config_data,      \* what load_config returned (self.config_data)
    config,           \* self.config, an OrchestratorConfig
    monitors,         \* self.monitors: signal -> kind of monitor object registered
    heap,             \* list objects: id -> contents
    history_ref,      \* self.decision_history: the id of the list object it names
    now,              \* the clock: number of decisions created so far
    returned,         \* what the last make_decision call returned
    appended,         \* history variable: every decision appended, in append order
    pc,               \* per thread: position inside make_decision (concurrent runs)
    frame,            \* per thread: the locals of its make_decision call
    probe,            \* the scoring harness: inputs and results of the pure functions
    observed,         \* history variable: what the last make_decision call met at each monitor
    mon,              \* a monitor object (monitors package) and the platform it probes
    clock,            \* time.time(), in seconds
    reply             \* what the call that has just returned gave (a query, a monitor
                      \* read); NoReply once anything else has happened

vars == <<phase, config_data, config, monitors, heap, history_ref, now,
          returned, appended, pc, frame, probe, observed, mon, clock, reply>>

\* self.decision_history
decision_history == heap[history_ref]

\* ------------------------------------------------------------------
\* scoring.py
\* ------------------------------------------------------------------

\* max(0.0, min(1.0, x)) on scores
Clamp01(x) == Max(0, Min(One, x))

\* scoring.py calculate_sustainability_score with the clamp left out (a mutant)
ScoreUnclamped(values, weights) ==
    values.battery * weights.battery
    + values.network * weights.network
    + (Scale - values.carbon) * weights.carbon

\* scoring.py calculate_sustainability_score with the carbon intensity not
\* inverted (a mutant)
ScoreCarbonNotInverted(values, weights) ==
    Clamp01(values.battery * weights.battery
            + values.network * weights.network
            + values.carbon * weights.carbon)

\* scoring.py calculate_sustainability_score: monitor_values and weights always
\* hold all three keys here, so the .get defaults are never used.
calculate_sustainability_score(values, weights) ==
    LET carbon_score == Scale - values.carbon
        score == values.battery * weights.battery
                 + values.network * weights.network
                 + carbon_score * weights.carbon
    IN  Clamp01(score)

\* floor of the square root, by bisection on lo..hi (lo*lo <= x < (hi+1)^2)
RECURSIVE SqrtBetween(_, _, _)
SqrtBetween(x, lo, hi) ==
    IF lo >= hi THEN lo
    ELSE LET mid == (lo + hi + 1) \div 2
         IN  IF mid * mid <= x THEN SqrtBetween(x, mid, hi)
             ELSE SqrtBetween(x, lo, mid - 1)

\* x ** 0.5 for a score x >= 0 (millionths), as a level (thousandths), rounded down
Sqrt(x) == SqrtBetween(x, 0, 2 * Scale)

\* The four sub-confidences of calculate_confidence, each as a score (millionths)
score_confidence(score) == One - Abs(score - One \div 2) * 2
battery_confidence(context) == Scale * (Scale - Abs(context.battery - Half) * 2)
network_confidence(context) == Scale * context.network
carbon_confidence(context) == Scale * (Scale - Abs(context.carbon - Half) * 2)

\* 4 * the mean of the sub-confidences (the division by 4 is exact in the
\* program's floats; the model keeps the numerator)
ConfidenceSum(score, context) ==
    score_confidence(score) + battery_confidence(context)
    + network_confidence(context) + carbon_confidence(context)

\* The value a failed calculate_confidence call stands for: a negative mean makes
\* "confidence ** 0.5" a complex number and max(0.0, min(1.0, ...)) raise TypeError.
ConfidenceError == 0 - 1

\* scoring.py calculate_confidence, as a level (thousandths)
calculate_confidence(score, context) ==
    LET total == ConfidenceSum(score, context)
    IN  IF total < 0 THEN ConfidenceError
        ELSE Max(0, Min(Scale, Sqrt(total \div 4)))

\* Units of the tradeoff metrics: 1 / (30 * Scale)
\* scoring.py analyze_tradeoffs
analyze_tradeoffs(battery, network, carbon) ==
    [battery_vs_performance |-> 3 * (battery * 7 + (Scale - battery) * 3),
     network_vs_latency |-> 3 * (network * 6 + (Scale - network) * 4),
     carbon_vs_speed |-> 3 * ((Scale - carbon) * 8 + carbon * 2),
     overall_tradeoff |-> 10 * (battery + network + (Scale - carbon))]


\* ------------------------------------------------------------------
\* Configuration: utils/config.py, models.py, decision_engine.py __init__
\* ------------------------------------------------------------------

\* A loaded configuration (the "orchestrator" section of the file).  A dict is a
\* set of <<key, value>> pairs with distinct keys; an optional key is the empty
\* set or a one-element set.  No file at all (load_config returns None) gives
\* the same configuration as a file that sets nothing.
File(w, t, e, c) ==
    [weights |-> w, threshold |-> t, hard_edge_battery |-> e, hard_cloud_battery |-> c]

W(b, n, c) == {<<"battery", b>>, <<"network", n>>, <<"carbon", c>>}

NoFile == File({}, {}, {}, {})
FileDefault == File(W(400, 300, 300), {}, {}, {})
FileSum11 == File(W(500, 500, 100), {}, {}, {})
FileNegativeWeight == File(W(1500, 0 - 500, 0), {}, {}, {})
FileHardEdgeOutOfRange == File({}, {}, {1500}, {})
FileInverted == File({}, {}, {900}, {100})

\* The configurations explored
ConfigFiles ==
    { NoFile, FileDefault, FileSum11, FileNegativeWeight,
      FileHardEdgeOutOfRange, FileInverted,
      File({<<"battery", 500>>}, {}, {}, {}),
      File({<<"battery", 600>>, <<"network", 400>>}, {}, {}, {}),
      File(W(400, 300, 300) \cup {<<"gpu", 500>>}, {}, {}, {}),
      File(W(400, 300, 301), {}, {}, {}),
      File(W(400, 300, 302), {}, {}, {}),
      File(W(400, 300, 298), {}, {}, {}),
      File({}, {1500}, {}, {}),
      File({}, {0 - 1}, {}, {}),
      File({}, {0}, {}, {}),
      File({}, {1000}, {}, {}),
      File({}, {}, {100}, {900}) }

\* OrchestratorConfig(): the dataclass defaults.  decision_history_size (default
\* 1000, never read from the file) is the parameter size.
OrchestratorConfig(size) ==
    [weights |-> DefaultWeights,
     threshold |-> DefaultThreshold,
     hard_edge_battery |-> DefaultHardEdgeBattery,
     hard_cloud_battery |-> DefaultHardCloudBattery,
     decision_history_size |-> size]

\* dict lookup d[key] on a set of pairs
Lookup(d, key) == (CHOOSE p \in d : p[1] = key)[2]
HasKey(d, key) == \E p \in d : p[1] = key

\* "if key in orch_config: config.key = orch_config[key]"
Override(opt, old) == IF opt = {} THEN old ELSE CHOOSE v \in opt : TRUE

\* decision_engine.py _create_config_from_data, the "orchestrator" section
\* applied to the defaults cfg
_create_config_from_data(cd, cfg) ==
    [cfg EXCEPT
        !.weights = [k \in Signals |->
                        IF HasKey(cd.weights, k) THEN Lookup(cd.weights, k)
                        ELSE cfg.weights[k]],
        !.threshold = Override(cd.threshold, cfg.threshold),
        !.hard_edge_battery = Override(cd.hard_edge_battery, cfg.hard_edge_battery),
        !.hard_cloud_battery = Override(cd.hard_cloud_battery, cfg.hard_cloud_battery)]

\* models.py OrchestratorConfig.validate without the weight-sum check (a mutant)
ValidateNoWeightCheck(cfg) == 0 <= cfg.threshold /\ cfg.threshold <= Scale

\* models.py OrchestratorConfig.validate: TRUE when it returns, FALSE when it
\* raises ValueError.  (The weights dict always has three keys, so the final
\* emptiness check never raises.)
validate(cfg) ==
    /\ 0 <= cfg.threshold /\ cfg.threshold <= Scale
    /\ ~ (Abs(WeightSum(cfg.weights) - Scale) > Tol)

\* ------------------------------------------------------------------
\* decision_engine.py make_decision
\* ------------------------------------------------------------------

\* What self.monitors holds for a signal: nothing ("absent"); the object
\* _initialize_monitors got from MonitorFactory ("factory"); an object a caller
\* put there that has one of the names make_decision reads, reporting levels in
\* [0,1] ("stub"); such an object whose read fails ("faulty"); such an object
\* reporting the conditions of a test scenario ("scripted")
MonitorKinds == {"absent", "factory", "stub", "faulty", "scripted"}

\* What a caller-installed monitor object (one with get_level / get_speed /
\* get_carbon_intensity, read, or the level attribute) may report
StubLevels ==
    [battery |-> {100, 200, 500, 800, 900}, network |-> {500, 700, 900},
     carbon |-> {500, 900}]

\* The conditions of tests/test_orchestrator.py (battery 5%, 20%, 90%; network
\* 0.2, 0.9; a green grid and a dirty one) and levels just beside one half
ScenarioLevels ==
    [battery |-> {50, 200, 490, 510, 900}, network |-> {200, 490, 510, 900},
     carbon |-> {100, 490, 510, 900}]

\* What the read of a faulty monitor returns when it returns: 1.5 and 5.0
FaultyLevels == {1500, 5000}

\* The values with "no monitor" read as 0.0 (a mutant)
ReadingsAbsentZero(s, kind) ==
    IF kind = "stub" THEN StubLevels[s]
    ELSE IF kind = "scripted" THEN ScenarioLevels[s]
    ELSE IF kind = "faulty" THEN FaultyLevels
    ELSE IF kind = "absent" THEN {0}
    ELSE {NeutralLevel}

\* The value make_decision reads for signal s.  No monitor registered, or one
\* built by MonitorFactory (none of its classes has any of the three readable
\* names), leaves the default 0.5.
Readings(s, kind) ==
    IF kind = "stub" THEN StubLevels[s]
    ELSE IF kind = "scripted" THEN ScenarioLevels[s]
    ELSE IF kind = "faulty" THEN FaultyLevels
    ELSE {NeutralLevel}

\* The branch the if / elif chain of one signal takes when the read returns:
\* one of the three reads ("value"), or the default 0.5 with a warning
ReadOutcome(kind) ==
    IF kind \in {"stub", "faulty", "scripted"} THEN "value" ELSE "default"

\* make_decision reads battery, then network, then carbon
SignalOrder == <<"battery", "network", "carbon">>
Position(s) == CHOOSE i \in DOMAIN SignalOrder : SignalOrder[i] = s

\* make_decision's mode rules with rule 2 tested before rule 1 (a mutant)
ModeRule2First(battery_status, network_status, score, cfg) ==
    IF battery_status > cfg.hard_cloud_battery /\ network_status > NetworkEdgeMin
    THEN [mode |-> EDGE_ONLY,
          explanation |-> "High battery and good network for edge processing"]
    ELSE IF battery_status < cfg.hard_edge_battery
    THEN [mode |-> CLOUD_ONLY, explanation |-> "Battery too low for edge processing"]
    ELSE IF score > cfg.threshold * Scale
    THEN [mode |-> HYBRID, explanation |-> "Good conditions for hybrid processing"]
    ELSE [mode |-> DEFERRED, explanation |-> "Poor conditions, defer processing"]

\* make_decision's mode rules with "network_status >= 0.7" in rule 2 (a mutant)
ModeNetworkInclusive(battery_status, network_status, score, cfg) ==
    IF battery_status < cfg.hard_edge_battery
    THEN [mode |-> CLOUD_ONLY, explanation |-> "Battery too low for edge processing"]
    ELSE IF battery_status > cfg.hard_cloud_battery /\ network_status >= NetworkEdgeMin
    THEN [mode |-> EDGE_ONLY,
          explanation |-> "High battery and good network for edge processing"]
    ELSE IF score > cfg.threshold * Scale
    THEN [mode |-> HYBRID, explanation |-> "Good conditions for hybrid processing"]
    ELSE [mode |-> DEFERRED, explanation |-> "Poor conditions, defer processing"]

\* make_decision's mode rules with "score >= threshold" in rule 3 (a mutant)
ModeThresholdInclusive(battery_status, network_status, score, cfg) ==
    IF battery_status < cfg.hard_edge_battery
    THEN [mode |-> CLOUD_ONLY, explanation |-> "Battery too low for edge processing"]
    ELSE IF battery_status > cfg.hard_cloud_battery /\ network_status > NetworkEdgeMin
    THEN [mode |-> EDGE_ONLY,
          explanation |-> "High battery and good network for edge processing"]
    ELSE IF score >= cfg.threshold * Scale
    THEN [mode |-> HYBRID, explanation |-> "Good conditions for hybrid processing"]
    ELSE [mode |-> DEFERRED, explanation |-> "Poor conditions, defer processing"]

\* make_decision, "Determine execution mode": the if / elif chain
recommended_mode(battery_status, network_status, score, cfg) ==
    IF battery_status < cfg.hard_edge_battery
    THEN [mode |-> CLOUD_ONLY, explanation |-> "Battery too low for edge processing"]
    ELSE IF battery_status > cfg.hard_cloud_battery /\ network_status > NetworkEdgeMin
    THEN [mode |-> EDGE_ONLY,
          explanation |-> "High battery and good network for edge processing"]
    ELSE IF score > cfg.threshold * Scale
    THEN [mode |-> HYBRID, explanation |-> "Good conditions for hybrid processing"]
    ELSE [mode |-> DEFERRED, explanation |-> "Poor conditions, defer processing"]

\* make_decision with the score smoothed over the previous decision kept in the
\* history, starting from the neutral 0.5 (a mutant): a call that reads what
\* earlier calls left behind
DecisionSmoothed(battery_status, network_status, carbon_status, cfg, timestamp) ==
    LET monitor_values == [battery |-> battery_status, network |-> network_status,
                           carbon |-> carbon_status]
        fresh == calculate_sustainability_score(monitor_values, cfg.weights)
        previous == IF decision_history = <<>> THEN One \div 2
                    ELSE decision_history[Len(decision_history)].score
        score == (fresh + previous) \div 2
        confidence == calculate_confidence(score, monitor_values)
        rule == recommended_mode(battery_status, network_status, score, cfg)
    IN  [score |-> score,
         confidence |-> confidence,
         battery |-> battery_status,
         network |-> network_status,
         carbon |-> carbon_status,
         timestamp |-> timestamp,
         recommended_mode |-> rule.mode,
         explanation |-> rule.explanation,
         tradeoffs |-> analyze_tradeoffs(battery_status, network_status, carbon_status)]

\* make_decision from the monitor values to the Decision object
Decision(battery_status, network_status, carbon_status, cfg, timestamp) ==
    LET monitor_values == [battery |-> battery_status, network |-> network_status,
                           carbon |-> carbon_status]
        score == calculate_sustainability_score(monitor_values, cfg.weights)
        confidence == calculate_confidence(score, monitor_values)
        rule == recommended_mode(battery_status, network_status, score, cfg)
    IN  [score |-> score,
         confidence |-> confidence,
         battery |-> battery_status,
         network |-> network_status,
         carbon |-> carbon_status,
         timestamp |-> timestamp,
         recommended_mode |-> rule.mode,
         explanation |-> rule.explanation,
         tradeoffs |-> analyze_tradeoffs(battery_status, network_status, carbon_status)]

NoDecision == [timestamp |-> 0]
Raised == [timestamp |-> 0 - 1]

\* Python's lst[start:] for any integer start
SliceFrom(lst, start) ==
    LET n == Len(lst)
        i == IF start < 0 THEN Max(0, start + n) ELSE Min(start, n)
    IN  SubSeq(lst, i + 1, n)

\* Python's lst[:stop] for stop >= 0
SliceTo(lst, stop) == SubSeq(lst, 1, Min(stop, Len(lst)))

\* "Limit history size" keeping the first entries instead of the last (a mutant)
TrimKeepsOldest(lst, size) == IF Len(lst) > size THEN SliceTo(lst, size) ELSE lst

\* make_decision, "Limit history size": the list self.decision_history names
\* after the trim
Trim(lst, size) == IF Len(lst) > size THEN SliceFrom(lst, 0 - size) ELSE lst


\* ------------------------------------------------------------------
\* State and the sequential operations
\* ------------------------------------------------------------------

Threads == 1 .. NumThreads

NoRef == 0 - 1
NoFrame == [decision |-> NoDecision, ref |-> NoRef, calls |-> 0]
NoProbe == [stage |-> "off"]

\* No make_decision call yet
NoObservation ==
    [kind |-> [s \in Signals |-> "none"], outcome |-> [s \in Signals |-> "none"]]

\* No monitor object under study; no read-only call made yet
NoMonitor == [class |-> "none"]
NoReply == [op |-> "none"]

\* Before __init__: no orchestrator, config holds the OrchestratorConfig()
\* defaults __init__ starts from, one empty list object.
Init ==
    /\ phase = "new"
    /\ config_data = NoFile
    /\ config \in {OrchestratorConfig(size) : size \in 1 .. MaxHistorySize}
    /\ monitors = [s \in Signals |-> "absent"]
    /\ heap = (0 :> <<>>)
    /\ history_ref = 0
    /\ now = 0
    /\ returned = NoDecision
    /\ appended = <<>>
    /\ pc = [t \in Threads |-> "idle"]
    /\ frame = [t \in Threads |-> NoFrame]
    /\ probe = NoProbe
    /\ observed = NoObservation
    /\ mon = NoMonitor
    /\ clock = 0
    /\ reply = NoReply

\* decision_engine.py __init__: load the configuration, build the config,
\* validate it (a ValueError leaves no orchestrator), register the three
\* monitors of _initialize_monitors, start with an empty history.
Construct ==
    /\ phase = "new"
    /\ \E cd \in ConfigFiles :
        LET cfg == _create_config_from_data(cd, config)
        IN  /\ config_data' = cd
            /\ IF validate(cfg)
               THEN /\ phase' = "running"
                    /\ config' = cfg
                    /\ monitors' = [s \in Signals |-> "factory"]
               ELSE /\ phase' = "failed"
                    /\ UNCHANGED <<config, monitors>>
    /\ heap' = (0 :> <<>>)
    /\ history_ref' = 0
    /\ UNCHANGED <<now, returned, appended, pc, frame, probe, observed, mon, clock, reply>>

\* A caller replaces the monitor registered for signal s by an object that has
\* one of the readable names make_decision looks for.
InstallMonitor ==
    /\ phase = "running"
    /\ \E s \in Signals :
        /\ monitors[s] # "stub"
        /\ monitors' = [monitors EXCEPT ![s] = "stub"]
    /\ UNCHANGED <<phase, config_data, config, heap, history_ref, now,
                   returned, appended, pc, frame, probe, observed, mon, clock, reply>>

\* decision_engine.py make_decision, run to completion by one caller, at most
\* limit times.  The trim builds a new list object; with no other reference to
\* the old one the model keeps the object's id.
MakeDecisionUpTo(limit) ==
    /\ phase = "running"
    /\ now < limit
    /\ \/ \E b \in Readings("battery", monitors["battery"]),
             n \in Readings("network", monitors["network"]),
             c \in Readings("carbon", monitors["carbon"]) :
           LET d == Decision(b, n, c, config, now + 1)
           IN  /\ observed' = [kind |-> monitors,
                               outcome |-> [s \in Signals |-> ReadOutcome(monitors[s])]]
               /\ IF d.confidence = ConfidenceError
                  THEN /\ returned' = Raised
                       /\ UNCHANGED <<heap, appended>>
                  ELSE /\ returned' = d
                       /\ appended' = Append(appended, d)
                       /\ heap' = [heap EXCEPT ![history_ref] =
                                      Trim(Append(decision_history, d),
                                           config.decision_history_size)]
       \* the read of signal s raises: nothing catches it
       \/ \E s \in Signals :
           /\ monitors[s] = "faulty"
           /\ observed' = [kind |-> monitors,
                           outcome |-> [x \in Signals |->
                               IF x = s THEN "raised"
                               ELSE IF Position(x) < Position(s)
                                    THEN ReadOutcome(monitors[x])
                                    ELSE "none"]]
           /\ returned' = Raised
           /\ UNCHANGED <<heap, appended>>
    /\ now' = now + 1
    /\ reply' = NoReply
    /\ UNCHANGED <<phase, config_data, config, monitors, history_ref, pc, frame,
                   probe, mon, clock>>

MakeDecision == MakeDecisionUpTo(MaxCalls)

\* A caller takes the monitor of signal s out of self.monitors (sets it to
\* None) before the first decision.
RemoveMonitor ==
    /\ phase = "running"
    /\ now = 0
    /\ \E s \in Signals :
        /\ monitors[s] # "absent"
        /\ monitors' = [monitors EXCEPT ![s] = "absent"]
    /\ UNCHANGED <<phase, config_data, config, heap, history_ref, now,
                   returned, appended, pc, frame, probe, observed, mon, clock, reply>>

\* A caller registers, before the first decision, a monitor for signal s whose
\* read raises or reports a level outside [0,1].
BreakMonitor ==
    /\ phase = "running"
    /\ now = 0
    /\ \E s \in Signals :
        /\ monitors[s] # "faulty"
        /\ monitors' = [monitors EXCEPT ![s] = "faulty"]
    /\ UNCHANGED <<phase, config_data, config, heap, history_ref, now,
                   returned, appended, pc, frame, probe, observed, mon, clock, reply>>

\* Enough calls to overflow the largest history twice
MakeDecisionRepeatedly == MakeDecisionUpTo(MaxHistorySize + 2)

\* The orchestrator's life: construction, caller-installed monitors, decisions
Next == Construct \/ InstallMonitor \/ MakeDecision

Spec == Init /\ [][Next]_vars

\* get_recent_decisions is called with these counts
RecentCounts == 0 .. MaxHistorySize + 1

\* decision_engine.py get_recent_decisions
get_recent_decisions(history, count) ==
    IF history # <<>> THEN SliceFrom(history, 0 - count) ELSE <<>>

\* orchestrator.get_recent_decisions(count)
GetRecentDecisions ==
    /\ phase = "running"
    /\ \E count \in RecentCounts :
        reply' = [op |-> "get_recent_decisions", count |-> count,
                  result |-> get_recent_decisions(decision_history, count)]
    /\ UNCHANGED <<phase, config_data, config, monitors, heap, history_ref, now,
                   returned, appended, pc, frame, probe, observed, mon, clock>>

\* len([d for d in self.decision_history if d.recommended_mode == mode])
CountMode(history, mode) ==
    Cardinality({i \in 1 .. Len(history) : history[i].recommended_mode = mode})

\* The floats of get_statistics.  sum(scores) / len(scores) rounds after every
\* addition and after the division, so the model keeps binary floating point
\* here, with MantissaBits significant bits where the program's doubles have
\* 53: a float is an integer number of units of 1 / FloatUnit, rounded to
\* MantissaBits significant bits, ties to even.
FloatUnit == 2 ^ (MantissaBits + 1)

\* The integer nearest to num / den, ties to even
RoundRatio(num, den) ==
    LET q == num \div den
        r == num % den
    IN  IF 2 * r > den \/ (2 * r = den /\ q % 2 = 1) THEN q + 1 ELSE q

\* The spacing of the floats around num / den: the least power of two g, from
\* g on, with num / den < 2^MantissaBits * g
RECURSIVE Spacing(_, _, _)
Spacing(num, den, g) ==
    IF num < (2 ^ MantissaBits) * g * den THEN g ELSE Spacing(num, den, 2 * g)

\* The float nearest to num / den (units of 1 / FloatUnit)
Fl(num, den) ==
    LET g == Spacing(num, den, 1)
    IN  g * RoundRatio(num, den * g)

\* The largest power of two dividing n
RECURSIVE TwoPart(_)
TwoPart(n) == IF n % 2 = 0 THEN 2 * TwoPart(n \div 2) ELSE 1

\* The float a Decision holds for the value x / one of the model (a score is
\* x / One, a confidence x / Scale)
ToFloat(x, one) ==
    LET t == Min(TwoPart(one), FloatUnit)
    IN  Fl(x * (FloatUnit \div t), one \div t)

\* sum(values): 0 + values[1] + values[2] + ..., every addition rounded
RECURSIVE FlSum(_, _)
FlSum(values, acc) ==
    IF values = <<>> THEN acc
    ELSE FlSum(Tail(values), Fl(acc + Head(values), 1))

\* [d.field for d in self.decision_history] as floats
FieldValues(history, field, one) ==
    [i \in 1 .. Len(history) |-> ToFloat(history[i][field], one)]

\* min and max of a field over a non-empty history
MinField(history, field) ==
    CHOOSE v \in {history[i][field] : i \in 1 .. Len(history)} :
        \A j \in 1 .. Len(history) : v <= history[j][field]

MaxField(history, field) ==
    CHOOSE v \in {history[i][field] : i \in 1 .. Len(history)} :
        \A j \in 1 .. Len(history) : v >= history[j][field]

\* decision_engine.py get_statistics.  The dict returned is a record with its
\* key set in the field keys: the empty dict for an empty history.  Scores and
\* confidences are floats (units of 1 / FloatUnit).
get_statistics(history) ==
    IF history = <<>> THEN [keys |-> {}]
    ELSE LET scores == FieldValues(history, "score", One)
             confidences == FieldValues(history, "confidence", Scale)
         IN  [keys |-> {"total_decisions", "average_score", "average_confidence",
                        "min_score", "max_score", "mode_distribution"},
              total_decisions |-> Len(history),
              average_score |-> Fl(FlSum(scores, 0), Len(scores)),
              average_confidence |-> Fl(FlSum(confidences, 0), Len(confidences)),
              min_score |-> ToFloat(MinField(history, "score"), One),
              max_score |-> ToFloat(MaxField(history, "score"), One),
              mode_distribution |->
                  {<<mode, CountMode(history, mode)>> : mode \in ExecutionMode}]

\* orchestrator.get_statistics()
GetStatistics ==
    /\ phase = "running"
    /\ reply' = [op |-> "get_statistics", result |-> get_statistics(decision_history)]
    /\ UNCHANGED <<phase, config_data, config, monitors, heap, history_ref, now,
                   returned, appended, pc, frame, probe, observed, mon, clock>>

\* The orchestrator as constructed (the factory's monitors), deciding
\* repeatedly and queried in between
NextHistory ==
    Construct \/ MakeDecisionRepeatedly \/ GetRecentDecisions \/ GetStatistics

SpecHistory == Init /\ [][NextHistory]_vars


\* ------------------------------------------------------------------
\* Properties of the decision rules (Spec)
\* ------------------------------------------------------------------

\* The decisions a state shows: the one just returned and those in the history
Decided ==
    {decision_history[i] : i \in 1 .. Len(decision_history)}
    \cup (IF returned.timestamp > 0 THEN {returned} ELSE {})

HardEdgeMatches(d) == d.battery < config.hard_edge_battery
HardCloudMatches(d) == d.battery > config.hard_cloud_battery /\ d.network > NetworkEdgeMin

LastEntries(lst, size) ==
    LET k == Min(Len(lst), size)
    IN  [i \in 1 .. k |-> lst[Len(lst) - k + i]]

\* C4: after any sequence of make_decision calls with decision_history_size =
\* N > 0 the history holds exactly the last min(calls, N) decisions in append
\* order: never more than N, the oldest evicted first.
C4_HistoryIsLastN ==
    phase = "running" =>
        /\ Len(appended) = now
        /\ Len(decision_history) = Min(now, config.decision_history_size)
        /\ decision_history = LastEntries(appended, config.decision_history_size)

\* Two decisions evicted from a history of at least two
C4_Witness ==
    /\ phase = "running"
    /\ config.decision_history_size >= 2
    /\ now >= config.decision_history_size + 2
    /\ Len(decision_history) = config.decision_history_size
    /\ decision_history[1].timestamp = now - config.decision_history_size + 1

\* C18: get_recent_decisions(n) returns the last min(n, length) entries of the
\* history in order for every n >= 0: none for n = 0, the whole history for n
\* above its length, none for an empty history.
C18_RecentIsLastN ==
    reply.op = "get_recent_decisions" =>
        /\ reply.result = LastEntries(decision_history, reply.count)
        /\ reply.count = 0 => reply.result = <<>>
        /\ decision_history = <<>> => reply.result = <<>>
        /\ reply.count >= Len(decision_history) => reply.result = decision_history

\* C19: get_statistics always reports a count for each of the four execution
\* modes, zero for the modes that do not occur, for every history including
\* the empty one.
C19_AllModesCounted ==
    reply.op = "get_statistics" =>
        /\ "mode_distribution" \in reply.result.keys
        /\ \A mode \in ExecutionMode :
              <<mode, CountMode(decision_history, mode)>>
                  \in reply.result.mode_distribution

\* ------------------------------------------------------------------
\* Properties of the configuration (Spec)
\* ------------------------------------------------------------------

\* The weights the configuration ends with: the file's value for each of the
\* three keys it sets, the default for the others
ConfiguredWeights ==
    [k \in Signals |->
        IF \E p \in config_data.weights : p[1] = k
        THEN (CHOOSE p \in config_data.weights : p[1] = k)[2]
        ELSE DefaultWeights[k]]

ConfiguredThreshold ==
    IF config_data.threshold = {} THEN DefaultThreshold
    ELSE CHOOSE v \in config_data.threshold : TRUE

WeightSumOk(w) ==
    /\ w.battery + w.network + w.carbon >= Scale - Tol
    /\ w.battery + w.network + w.carbon <= Scale + Tol

\* C9: construction fails, and no orchestrator is produced, whenever the
\* configured weights do not sum to 1.0 within 0.001 (0.5 / 0.5 / 0.1 is
\* rejected); weights that do are accepted (0.4 / 0.3 / 0.3), and an accepted
\* configuration carries the configured weights unchanged.
C9_WeightSumEnforced ==
    phase # "new" =>
        /\ ~ WeightSumOk(ConfiguredWeights) => phase = "failed"
        /\ phase = "failed" => now = 0 /\ decision_history = <<>>
        /\ (WeightSumOk(ConfiguredWeights) /\ ConfiguredThreshold \in 0 .. Scale)
              => phase = "running"
        /\ phase = "running" => config.weights = ConfiguredWeights
        /\ config_data = FileSum11 => phase = "failed"
        /\ config_data = FileDefault => phase = "running"

\* The weights 0.5 / 0.5 / 0.1 rejected
C9_Witness == phase = "failed" /\ config_data = FileSum11

\* C10: every running orchestrator has threshold, hard_edge_battery and
\* hard_cloud_battery in [0,1]  (validate checks the threshold only)
C10_BoundsInRange ==
    phase = "running" =>
        /\ config.threshold \in 0 .. Scale
        /\ config.hard_edge_battery \in 0 .. Scale
        /\ config.hard_cloud_battery \in 0 .. Scale


\* ------------------------------------------------------------------
\* make_decision called from several threads
\* ------------------------------------------------------------------
\* The interpreter may switch threads between any two bytecodes, so the
\* statements of "Save decision to history" and "Limit history size" are taken
\* apart at their attribute loads and stores.  No lock is taken anywhere.

\* A constructed orchestrator with the default configuration
InitConcurrent ==
    /\ phase = "running"
    /\ config_data = NoFile
    /\ config \in {OrchestratorConfig(size) : size \in 1 .. MaxHistorySize}
    /\ monitors = [s \in Signals |-> "factory"]
    /\ heap = (0 :> <<>>)
    /\ history_ref = 0
    /\ now = 0
    /\ returned = NoDecision
    /\ appended = <<>>
    /\ pc = [t \in Threads |-> "idle"]
    /\ frame = [t \in Threads |-> NoFrame]
    /\ probe = NoProbe
    /\ observed = NoObservation
    /\ mon = NoMonitor
    /\ clock = 0
    /\ reply = NoReply

\* The list objects still referenced once the step is taken
Live(ref, frames) == {ref} \cup ({frames[t].ref : t \in Threads} \ {NoRef})

Collect(objects, ref, frames) ==
    [id \in DOMAIN objects \cap Live(ref, frames) |-> objects[id]]

\* Lines 186-282: read the monitors, score, build the Decision
ThreadDecide(t) ==
    /\ pc[t] = "idle"
    /\ frame[t].calls < CallsPerThread
    /\ \E b \in Readings("battery", monitors["battery"]),
          n \in Readings("network", monitors["network"]),
          c \in Readings("carbon", monitors["carbon"]) :
        LET d == Decision(b, n, c, config, now + 1)
        IN  IF d.confidence = ConfidenceError
            THEN /\ frame' = [frame EXCEPT ![t].calls = @ + 1]
                 /\ returned' = Raised
                 /\ pc' = pc
            ELSE /\ frame' = [frame EXCEPT ![t].decision = d]
                 /\ pc' = [pc EXCEPT ![t] = "load_append"]
                 /\ UNCHANGED returned
    /\ observed' = [kind |-> monitors,
                    outcome |-> [s \in Signals |-> ReadOutcome(monitors[s])]]
    /\ now' = now + 1
    /\ UNCHANGED <<phase, config_data, config, monitors, heap, history_ref,
                   appended, probe, mon, clock, reply>>

\* Line 285, the load of self.decision_history
ThreadLoadForAppend(t) ==
    /\ pc[t] = "load_append"
    /\ frame' = [frame EXCEPT ![t].ref = history_ref]
    /\ pc' = [pc EXCEPT ![t] = "append"]
    /\ UNCHANGED <<phase, config_data, config, monitors, heap, history_ref, now,
                   returned, appended, probe, observed, mon, clock, reply>>

\* Line 285, list.append on the loaded object
ThreadAppend(t) ==
    /\ pc[t] = "append"
    /\ LET frames == [frame EXCEPT ![t].ref = NoRef]
           objects == [heap EXCEPT ![frame[t].ref] = Append(@, frame[t].decision)]
       IN  /\ frame' = frames
           /\ heap' = Collect(objects, history_ref, frames)
    /\ appended' = Append(appended, frame[t].decision)
    /\ pc' = [pc EXCEPT ![t] = "check"]
    /\ UNCHANGED <<phase, config_data, config, monitors, history_ref, now,
                   returned, probe, observed, mon, clock, reply>>

\* Line 288: len(self.decision_history) > self.config.decision_history_size
ThreadCheck(t) ==
    /\ pc[t] = "check"
    /\ pc' = [pc EXCEPT ![t] =
                IF Len(decision_history) > config.decision_history_size
                THEN "load_slice" ELSE "return"]
    /\ UNCHANGED <<phase, config_data, config, monitors, heap, history_ref, now,
                   returned, appended, frame, probe, observed, mon, clock, reply>>

\* Line 289, the load of self.decision_history on the right-hand side
ThreadLoadForSlice(t) ==
    /\ pc[t] = "load_slice"
    /\ frame' = [frame EXCEPT ![t].ref = history_ref]
    /\ pc' = [pc EXCEPT ![t] = "slice"]
    /\ UNCHANGED <<phase, config_data, config, monitors, heap, history_ref, now,
                   returned, appended, probe, observed, mon, clock, reply>>

\* Line 289, the slice: a new list object
ThreadSlice(t) ==
    /\ pc[t] = "slice"
    /\ LET id == CHOOSE i \in 0 .. NumThreads + 1 :
                    i \notin DOMAIN heap /\ \A j \in 0 .. i - 1 : j \in DOMAIN heap
           frames == [frame EXCEPT ![t].ref = id]
           objects == [i \in DOMAIN heap \cup {id} |->
                          IF i = id
                          THEN SliceFrom(heap[frame[t].ref],
                                         0 - config.decision_history_size)
                          ELSE heap[i]]
       IN  /\ frame' = frames
           /\ heap' = Collect(objects, history_ref, frames)
    /\ pc' = [pc EXCEPT ![t] = "store"]
    /\ UNCHANGED <<phase, config_data, config, monitors, history_ref, now,
                   returned, appended, probe, observed, mon, clock, reply>>

\* Line 289, the store to self.decision_history
ThreadStore(t) ==
    /\ pc[t] = "store"
    /\ LET frames == [frame EXCEPT ![t].ref = NoRef]
       IN  /\ frame' = frames
           /\ history_ref' = frame[t].ref
           /\ heap' = Collect(heap, frame[t].ref, frames)
    /\ pc' = [pc EXCEPT ![t] = "return"]
    /\ UNCHANGED <<phase, config_data, config, monitors, now, returned,
                   appended, probe, observed, mon, clock, reply>>

\* Line 292
ThreadReturn(t) ==
    /\ pc[t] = "return"
    /\ returned' = frame[t].decision
    /\ frame' = [frame EXCEPT ![t] = [NoFrame EXCEPT !.calls = frame[t].calls + 1]]
    /\ pc' = [pc EXCEPT ![t] = "idle"]
    /\ UNCHANGED <<phase, config_data, config, monitors, heap, history_ref, now,
                   appended, probe, observed, mon, clock, reply>>

NextConcurrent ==
    \E t \in Threads :
        \/ ThreadDecide(t)
        \/ ThreadLoadForAppend(t)
        \/ ThreadAppend(t)
        \/ ThreadCheck(t)
        \/ ThreadLoadForSlice(t)
        \/ ThreadSlice(t)
        \/ ThreadStore(t)
        \/ ThreadReturn(t)

SpecConcurrent == InitConcurrent /\ [][NextConcurrent]_vars

\* Every thread has returned from its last call
Quiescent == \A t \in Threads : pc[t] = "idle" /\ frame[t].calls = CallsPerThread

\* C5: append-and-evict is mutually exclusive.  Once all concurrent calls have
\* returned, the history is at most the cap long and holds the most recently
\* appended decisions in append order: an appended decision is missing only if
\* every decision appended before it is missing too (oldest-first eviction).
C5_NoLostAppend ==
    Quiescent =>
        /\ Len(decision_history) <= config.decision_history_size
        /\ decision_history = LastEntries(appended, Len(decision_history))


\* ------------------------------------------------------------------
\* make_decision and the monitors it is given (SpecMonitors)
\* ------------------------------------------------------------------

\* A constructed orchestrator with the default configuration whose monitors a
\* caller takes out, replaces by readable ones or by failing ones, then decides
NextMonitors == InstallMonitor \/ RemoveMonitor \/ BreakMonitor \/ MakeDecision

SpecMonitors == InitConcurrent /\ [][NextMonitors]_vars

\* The last make_decision call has been made with these monitors
Called == \E s \in Signals : observed.kind[s] # "none"

\* C12: a signal with no monitor registered is read as the neutral 0.5, and
\* the call still returns a Decision that is the newest entry of the history:
\* whenever no registered monitor's read fails, the call with one or more
\* monitors missing does not raise.
C12_MissingMonitorNeutral ==
    \A s \in Signals :
        observed.kind[s] = "absent" =>
            /\ observed.outcome[s] \in {"default", "none"}
            /\ returned.timestamp > 0 =>
                  /\ returned[s] = NeutralLevel
                  /\ returned.timestamp = now
                  /\ decision_history # <<>>
                  /\ decision_history[Len(decision_history)] = returned
                  /\ appended[Len(appended)] = returned
            /\ (\A x \in Signals : observed.kind[x] # "faulty") => returned.timestamp > 0

\* No battery monitor, a caller's network monitor reporting 0.9: a Decision
\* with battery 0.5 and network 0.9, appended
C12_Witness ==
    /\ observed.kind["battery"] = "absent"
    /\ observed.kind["network"] = "stub"
    /\ returned.timestamp = now
    /\ returned.battery = NeutralLevel
    /\ returned.network = 900
    /\ decision_history[Len(decision_history)] = returned

\* C13: the context of a decision comes from the selected monitors.  For every
\* signal with a monitor built by the monitor factory the value is read from
\* that monitor; the default 0.5 branch is taken only for a signal with no
\* monitor registered.
C13_ContextFromMonitors ==
    \A s \in Signals :
        /\ observed.kind[s] = "factory" => observed.outcome[s] # "default"
        /\ observed.outcome[s] = "default" => observed.kind[s] = "absent"

\* C14: with a valid configuration every make_decision call returns a
\* Decision; a registered monitor's failing read (an exception, a level outside
\* [0,1]) never makes the call raise.
C14_AlwaysDecides == (phase = "running" /\ Called) => returned.timestamp = now


\* ------------------------------------------------------------------
\* models.py update_weights
\* ------------------------------------------------------------------

\* sum(new_weights.values()) of a dict given as a set of <<key, value>> pairs
RECURSIVE DictSum(_)
DictSum(d) ==
    IF d = {} THEN 0
    ELSE LET p == CHOOSE q \in d : TRUE
         IN  p[2] + DictSum(d \ {p})

\* The arguments update_weights is called with: all three keys, one key, two
\* keys, no key.  (Keys are among battery / network / carbon.)
WeightUpdates ==
    { W(500, 300, 200), W(500, 500, 100), W(0, 0, 1000),
      {<<"battery", 1000>>}, {<<"carbon", 1000>>}, {<<"network", 500>>},
      {<<"battery", 600>>, <<"network", 400>>},
      {<<"battery", 400>>, <<"network", 601>>},
      {} }

\* models.py update_weights: TRUE when the call returns, FALSE when it raises
\* ValueError.  The sum is taken over new_weights alone.
update_weights_accepts(new_weights) == ~ (Abs(DictSum(new_weights) - Scale) > Tol)

\* self.weights.update(new_weights)
update_weights(cfg, new_weights) ==
    [cfg EXCEPT !.weights =
        [k \in Signals |->
            IF HasKey(new_weights, k) THEN Lookup(new_weights, k) ELSE cfg.weights[k]]]

\* update_weights merging new_weights before it checks their sum (a mutant)
UpdateBeforeCheck(cfg, new_weights) ==
    [raised |-> ~ update_weights_accepts(new_weights),
     config |-> update_weights(cfg, new_weights)]

\* models.py update_weights, the whole call: whether it raised, and the
\* configuration it leaves.  The raise comes before self.weights.update.
update_weights_call(cfg, new_weights) ==
    IF update_weights_accepts(new_weights)
    THEN [raised |-> FALSE, config |-> update_weights(cfg, new_weights)]
    ELSE [raised |-> TRUE, config |-> cfg]

\* orchestrator.config.update_weights(new_weights) on a constructed orchestrator
UpdateWeights ==
    /\ phase = "running"
    /\ \E nw \in WeightUpdates :
        LET call == update_weights_call(config, nw)
        IN  /\ config' = call.config
            /\ reply' = [op |-> "update_weights", new_weights |-> nw,
                         raised |-> call.raised]
    /\ UNCHANGED <<phase, config_data, monitors, heap, history_ref, now, returned,
                   appended, pc, frame, probe, observed, mon, clock>>

\* Construction, then any sequence of weight updates
NextUpdate == Construct \/ UpdateWeights

SpecUpdate == Init /\ [][NextUpdate]_vars

\* C11: starting from a valid configuration, after any sequence of
\* update_weights calls (accepted or rejected, naming all or only some of the
\* keys) the configuration's weights sum to 1.0 within 0.001.
C11_WeightSumPreserved == phase = "running" => WeightSumOk(config.weights)

\* C27: an update_weights call whose new weights do not sum to 1.0 within
\* 0.001 raises, and the configuration's weights after it are exactly the
\* weights before it.
C27_RejectedUpdateKeepsWeights ==
    [][(/\ reply'.op = "update_weights"
        /\ Abs(DictSum(reply'.new_weights) - Scale) > Tol)
          => /\ reply'.raised
             /\ config'.weights = config.weights]_vars

\* A rejected update naming one key, after an accepted update had changed the
\* weights: the key keeps the value it had
C27_Witness ==
    /\ phase = "running"
    /\ reply.op = "update_weights"
    /\ reply.raised
    /\ reply.new_weights = {<<"network", 500>>}
    /\ config.weights = [battery |-> 0, network |-> 0, carbon |-> 1000]


\* ------------------------------------------------------------------
\* The scoring functions on their own (SpecScoring)
\* ------------------------------------------------------------------

\* Levels 0, 1/GridSteps, ..., 1 and 0.5
Grid == {(i * Scale) \div GridSteps : i \in 0 .. GridSteps} \cup {Half}

\* Scores 0, 1/GridSteps, ..., 1 and 0.5
ScoreGrid == {v * Scale : v \in Grid}

\* Weight sets OrchestratorConfig.validate accepts
WeightChoices ==
    {w \in { DefaultWeights,
             [battery |-> 1000, network |-> 0, carbon |-> 0],
             [battery |-> 0, network |-> 1000, carbon |-> 0],
             [battery |-> 0, network |-> 0, carbon |-> 1000],
             [battery |-> 400, network |-> 300, carbon |-> 301],
             [battery |-> 1500, network |-> 0 - 500, carbon |-> 0],
             [battery |-> 500, network |-> 1000, carbon |-> 0 - 500] } :
        validate([OrchestratorConfig(1) EXCEPT !.weights = w])}

InitScoring ==
    /\ phase = "new"
    /\ config_data = NoFile
    /\ config = OrchestratorConfig(1)
    /\ monitors = [s \in Signals |-> "absent"]
    /\ heap = (0 :> <<>>)
    /\ history_ref = 0
    /\ now = 0
    /\ returned = NoDecision
    /\ appended = <<>>
    /\ pc = [t \in Threads |-> "idle"]
    /\ frame = [t \in Threads |-> NoFrame]
    /\ probe \in {[stage |-> "inputs", weights |-> w,
                   values |-> [battery |-> b, network |-> n, carbon |-> c]] :
                     w \in WeightChoices, b \in Grid, n \in Grid, c \in Grid}
    /\ observed = NoObservation
    /\ mon = NoMonitor
    /\ clock = 0
    /\ reply = NoReply

Frame == <<phase, config_data, config, monitors, heap, history_ref, now,
           returned, appended, pc, frame, observed, mon, clock, reply>>

\* score = calculate_sustainability_score(monitor_values, weights)
ApplyScore ==
    /\ probe.stage = "inputs"
    /\ probe' = [stage |-> "scored", weights |-> probe.weights, values |-> probe.values,
                 score |-> calculate_sustainability_score(probe.values, probe.weights)]
    /\ UNCHANGED Frame

\* A second call with one input raised and everything else the same
ApplyScoreRaised ==
    /\ probe.stage = "scored"
    /\ \E s \in Signals, v \in Grid :
        /\ v > probe.values[s]
        /\ LET raised == [probe.values EXCEPT ![s] = v]
           IN  probe' = [stage |-> "compared", weights |-> probe.weights,
                         values |-> raised, changed |-> s,
                         score_before |-> probe.score,
                         score |-> calculate_sustainability_score(raised, probe.weights)]
    /\ UNCHANGED Frame

\* confidence = calculate_confidence(score, context), for any score in [0,1]
ApplyConfidence ==
    /\ probe.stage = "inputs"
    /\ \E sc \in ScoreGrid :
        probe' = [stage |-> "confidence", weights |-> probe.weights,
                  values |-> probe.values, score |-> sc,
                  mean4 |-> ConfidenceSum(sc, probe.values),
                  confidence |-> calculate_confidence(sc, probe.values)]
    /\ UNCHANGED Frame

NextScoring == ApplyScore \/ ApplyScoreRaised \/ ApplyConfidence

SpecScoring == InitScoring /\ [][NextScoring]_vars

NonNegative(w) == w.battery >= 0 /\ w.network >= 0 /\ w.carbon >= 0

\* battery*w_battery + network*w_network + (1 - carbon)*w_carbon
WeightedSum(v, w) ==
    v.battery * w.battery + v.network * w.network + (Scale - v.carbon) * w.carbon

\* C6: for non-negative weights summing to 1 within 0.001 and inputs in [0,1]
\* the score is the weighted sum clamped to [0,1], hence in [0,1].
C6_ScoreClamped ==
    (probe.stage \in {"scored", "compared"}
     /\ NonNegative(probe.weights) /\ WeightSumOk(probe.weights)) =>
        LET raw == WeightedSum(probe.values, probe.weights)
        IN  /\ probe.score >= 0 /\ probe.score <= One
            /\ raw > One => probe.score = One
            /\ raw < 0 => probe.score = 0
            /\ (raw >= 0 /\ raw <= One) => probe.score = raw

\* A weighted sum above 1 (weights summing to 1.001) cut back to 1
C6_Witness ==
    /\ probe.stage = "scored"
    /\ NonNegative(probe.weights) /\ WeightSumOk(probe.weights)
    /\ WeightedSum(probe.values, probe.weights) > One
    /\ probe.score = One

\* C7: for every weight set validation accepts, raising battery or network
\* never lowers the score and raising carbon never raises it.
C7_ScoreMonotone ==
    (probe.stage = "compared"
     /\ validate([OrchestratorConfig(1) EXCEPT !.weights = probe.weights])) =>
        /\ probe.changed \in {"battery", "network"} => probe.score >= probe.score_before
        /\ probe.changed = "carbon" => probe.score <= probe.score_before

\* C8: for score and inputs in [0,1] the confidence is in [0,1], the mean of
\* the four sub-confidences is in [0,1] before the square root, and that mean
\* is 0 for score = 0.5, battery = 0.5, network = 0, carbon = 0.5.
C8_ConfidenceRange ==
    probe.stage = "confidence" =>
        /\ probe.confidence >= 0 /\ probe.confidence <= Scale
        /\ probe.mean4 >= 0 /\ probe.mean4 <= 4 * One
        /\ (/\ probe.score = One \div 2
            /\ probe.values = [battery |-> Half, network |-> 0, carbon |-> Half])
              => probe.mean4 = 0

\* ------------------------------------------------------------------
\* The monitors package: base_monitor.py, battery_monitor.py,
\* network_monitor.py, carbon_monitor.py  (SpecMonitor)
\* ------------------------------------------------------------------
\* One monitor object and the platform it probes.  A battery level is a
\* percentage, a network quality is in thousandths, a carbon intensity is in
\* tenths of a gCO2/kWh (the simulator reports one decimal).

DefaultCacheTTL == 300           \* base_monitor.py self.cache_ttl = 300
NetworkCacheTTL == 60            \* network_monitor.py self.cache_ttl = 60
CarbonCacheTTL == 300            \* carbon_monitor.py self.cache_ttl = 300
FallbackPercentage == 85         \* battery_monitor.py _get_fallback_info
FallbackQuality == 500           \* network_monitor.py _get_fallback_info, 0.5
FallbackIntensity == 400         \* carbon_monitor.py _get_fallback_info
SimulatedPercentage == 85        \* battery_monitor.py SimulatedBatteryMonitor.__init__
GreenIntensity == 300            \* carbon_monitor.py _is_green_grid threshold

MaxTicks == 11                   \* the clock runs for MaxTicks steps
ClockStep == NetworkCacheTTL \div 2

\* "battery" is a platform BatteryMonitor (macOS, Linux, Windows), "universal"
\* the UniversalBatteryMonitor, "network" and "carbon" a NetworkMonitor and a
\* CarbonMonitor that probe the outside world
MonitorClasses == {"battery", "universal", "network", "carbon"}

SignalOf(class) ==
    CASE class = "universal" -> "battery"
      [] class = "simulated_carbon" -> "carbon"
      [] OTHER -> class

\* cache_ttl after __init__
InitialTTL(class) ==
    CASE class = "network" -> NetworkCacheTTL
      [] class \in {"carbon", "simulated_carbon"} -> CarbonCacheTTL
      [] OTHER -> DefaultCacheTTL

\* The platform: whether the native monitor's is_available() holds, and how its
\* raw probe ends now.  Where the monitor is not available its probe raises.
Platforms ==
    {pl \in [available : BOOLEAN, outcome : {"ok", "raises", "timeout"}] :
        ~ pl.available => pl.outcome = "raises"}

\* What a successful raw probe may report (inside and outside the valid range)
RawLevels ==
    [battery |-> {50, 150}, network |-> {800, 1500},
     carbon |-> {250 * 10, GreenIntensity * 10, 700 * 10}]

\* carbon_monitor.py _is_green_grid, intensity in tenths
_is_green_grid(intensity) == intensity <= GreenIntensity * 10

\* is_charging / connected / is_green as the raw probe reports it
RawFlag(signal, level) == IF signal = "carbon" THEN _is_green_grid(level) ELSE FALSE

\* The result of a raw probe (_get_raw_battery_info, _get_raw_network_info,
\* _get_raw_carbon_info): status "ok" with the dict's entries, or the exception
RawResult(status, source, level, flag) ==
    [status |-> status, source |-> source, level |-> level, flag |-> flag]

\* The raw probe of a platform monitor
native_raw(signal, pl) ==
    IF pl.outcome = "ok"
    THEN {RawResult("ok", "native", l, RawFlag(signal, l)) : l \in RawLevels[signal]}
    ELSE {RawResult(pl.outcome, "none", 0, FALSE)}

\* SimulatedBatteryMonitor._get_raw_battery_info: pure arithmetic, never raises
simulated_raw == RawResult("ok", "simulation", SimulatedPercentage, TRUE)

\* UniversalBatteryMonitor.is_available: the first available monitor of
\* [platform monitor, SimulatedBatteryMonitor] becomes current_monitor
universal_is_available(pl) == IF pl.available THEN "native" ELSE "simulated"

\* UniversalBatteryMonitor._get_raw_battery_info: the current monitor after the
\* call and the raw results the call may return
universal_raw(current_monitor, pl) ==
    LET current == IF current_monitor = "none" THEN universal_is_available(pl)
                   ELSE current_monitor
    IN  IF current = "native" /\ pl.outcome = "ok"
        THEN [current_monitor |-> "native", raws |-> native_raw("battery", pl)]
        \* the current monitor failed: the other one (the simulator) takes over
        ELSE [current_monitor |-> "simulated", raws |-> {simulated_raw}]

\* The raw probe of the monitor m on platform pl
raw_probe(m, pl) ==
    IF m.class = "universal" THEN universal_raw(m.current_monitor, pl)
    ELSE [current_monitor |-> m.current_monitor, raws |-> native_raw(m.class, pl)]

\* A reading: the dict get_info returns
Reading(signal, source, level, flag, timestamp) ==
    [signal |-> signal, source |-> source, level |-> level, flag |-> flag,
     timestamp |-> timestamp]

\* _get_fallback_info of the three monitor families
fallback_info(signal, timestamp) ==
    CASE signal = "battery" ->
            Reading(signal, "fallback", FallbackPercentage, TRUE, timestamp)
      [] signal = "network" ->
            Reading(signal, "fallback", FallbackQuality, TRUE, timestamp)
      [] OTHER ->
            Reading(signal, "fallback", FallbackIntensity * 10, FALSE, timestamp)

\* "Ensure percentage is float between 0-100", "Normalize quality to 0-1"
standardize(signal, level) ==
    CASE signal = "battery" -> Max(0, Min(100, level))
      [] signal = "network" -> Max(0, Min(Scale, level))
      [] OTHER -> level

\* get_info with the try / except left out (a mutant): the exception of the raw
\* probe leaves get_info
GetInfoPropagates(signal, raw, timestamp) ==
    IF raw.status = "ok"
    THEN Reading(signal, raw.source, standardize(signal, raw.level), raw.flag, timestamp)
    ELSE Reading(signal, "raised", 0, FALSE, timestamp)

\* BatteryMonitor.get_info, NetworkMonitor.get_info, CarbonMonitor.get_info
\* given what the raw probe did
get_info(signal, raw, timestamp) ==
    IF raw.status = "ok"
    THEN Reading(signal, raw.source, standardize(signal, raw.level), raw.flag, timestamp)
    ELSE fallback_info(signal, timestamp)

\* get_cached_info's test with "<=" (a mutant)
CacheFreshInclusive(m, current_time) ==
    m.cache # {} /\ current_time - m.last_update_time <= m.cache_ttl

\* base_monitor.py get_cached_info: "self.cache and current_time -
\* self.last_update_time < self.cache_ttl"
cache_fresh(m, current_time) ==
    m.cache # {} /\ current_time - m.last_update_time < m.cache_ttl

\* BaseMonitor.__init__ and the subclass constructors.  filled_at and refreshed
\* are history fields: when the call that filled the cache began (-1: never),
\* and whether refresh() ran since.
NewMonitor(class, pl) ==
    [class |-> class,
     cache |-> {},
     last_update_time |-> 0,
     cache_ttl |-> InitialTTL(class),
     current_monitor |-> "none",
     platform |-> pl,
     filled_at |-> 0 - 1,
     refreshed |-> FALSE]

InitMonitor ==
    /\ phase = "new"
    /\ config_data = NoFile
    /\ config = OrchestratorConfig(1)
    /\ monitors = [s \in Signals |-> "absent"]
    /\ heap = (0 :> <<>>)
    /\ history_ref = 0
    /\ now = 0
    /\ returned = NoDecision
    /\ appended = <<>>
    /\ pc = [t \in Threads |-> "idle"]
    /\ frame = [t \in Threads |-> NoFrame]
    /\ probe = NoProbe
    /\ observed = NoObservation
    /\ mon \in {NewMonitor(class, pl) : class \in MonitorClasses, pl \in Platforms}
    /\ clock = 0
    /\ reply = NoReply

Orchestrator == <<phase, config_data, config, monitors, heap, history_ref, now,
                  returned, appended, pc, frame, probe, observed>>

\* How long a probe may take
Durations == {d \in {0, ClockStep} : clock + d <= MaxTicks * ClockStep}

\* What a monitor call leaves in reply: when it began, whether it ran
\* get_info, what it returned, what the raw probe did, the cache content it
\* answered from (hit), and two history values: whether the cache had been
\* filled and not refreshed since (held), and how long ago (age)
MonitorReply(op, probed, result, raw, hit) ==
    [op |-> op, at |-> clock, probed |-> probed, result |-> result, raw |-> raw,
     hit |-> hit,
     held |-> (mon.filled_at >= 0 /\ ~ mon.refreshed),
     age |-> IF mon.filled_at >= 0 THEN clock - mon.filled_at ELSE 0 - 1]

\* Time passes
Tick ==
    /\ clock + ClockStep <= MaxTicks * ClockStep
    /\ clock' = clock + ClockStep
    /\ reply' = NoReply
    /\ UNCHANGED <<Orchestrator, mon>>

\* The platform changes: the battery appears or disappears, the probe starts
\* or stops failing
PlatformChanges ==
    /\ \E pl \in Platforms \ {mon.platform} : mon' = [mon EXCEPT !.platform = pl]
    /\ reply' = NoReply
    /\ UNCHANGED <<Orchestrator, clock>>

\* monitor.is_available()
IsAvailable ==
    /\ mon' = IF mon.class = "universal"
              THEN [mon EXCEPT !.current_monitor = universal_is_available(mon.platform)]
              ELSE mon
    /\ reply' = [op |-> "is_available", at |-> clock,
                 result |-> (mon.class = "universal" \/ mon.platform.available)]
    /\ UNCHANGED <<Orchestrator, clock>>

\* monitor.get_info()
GetInfo ==
    /\ LET probed == raw_probe(mon, mon.platform)
       IN  \E raw \in probed.raws, d \in Durations :
             /\ clock' = clock + d
             /\ mon' = [mon EXCEPT !.current_monitor = probed.current_monitor]
             /\ reply' = MonitorReply("get_info", TRUE,
                                      get_info(SignalOf(mon.class), raw, clock + d),
                                      raw, {})
    /\ UNCHANGED Orchestrator

\* monitor.get_cached_info()
GetCachedInfo ==
    /\ IF cache_fresh(mon, clock)
       THEN /\ reply' = MonitorReply("get_cached_info", FALSE,
                                     CHOOSE r \in mon.cache : TRUE,
                                     RawResult("none", "none", 0, FALSE), mon.cache)
            /\ UNCHANGED <<mon, clock>>
       ELSE LET probed == raw_probe(mon, mon.platform)
            IN  \E raw \in probed.raws, d \in Durations :
                  LET info == get_info(SignalOf(mon.class), raw, clock + d)
                  IN  /\ clock' = clock + d
                      /\ mon' = [mon EXCEPT !.current_monitor = probed.current_monitor,
                                            !.cache = {info},
                                            !.last_update_time = clock,
                                            !.filled_at = clock,
                                            !.refreshed = FALSE]
                      /\ reply' = MonitorReply("get_cached_info", TRUE, info, raw, {})
    /\ UNCHANGED Orchestrator

\* monitor.refresh() keeping the reading it returns as the cache (a mutant)
RefreshStoring ==
    /\ LET probed == raw_probe(mon, mon.platform)
       IN  \E raw \in probed.raws, d \in Durations :
             LET info == get_info(SignalOf(mon.class), raw, clock + d)
             IN  /\ clock' = clock + d
                 /\ mon' = [mon EXCEPT !.current_monitor = probed.current_monitor,
                                       !.cache = {info},
                                       !.last_update_time = clock,
                                       !.refreshed = TRUE]
                 /\ reply' = MonitorReply("refresh", TRUE, info, raw, {})
    /\ UNCHANGED Orchestrator

\* monitor.refresh(): the cache is emptied, the fresh reading is returned and
\* not stored
Refresh ==
    /\ LET probed == raw_probe(mon, mon.platform)
       IN  \E raw \in probed.raws, d \in Durations :
             /\ clock' = clock + d
             /\ mon' = [mon EXCEPT !.current_monitor = probed.current_monitor,
                                   !.cache = {},
                                   !.refreshed = TRUE]
             /\ reply' = MonitorReply("refresh", TRUE,
                                      get_info(SignalOf(mon.class), raw, clock + d),
                                      raw, {})
    /\ UNCHANGED Orchestrator

\* monitor.set_cache_ttl(ttl)
SetCacheTTL ==
    /\ \E ttl \in {0, NetworkCacheTTL, DefaultCacheTTL} \ {mon.cache_ttl} :
        mon' = [mon EXCEPT !.cache_ttl = ttl]
    /\ reply' = NoReply
    /\ UNCHANGED <<Orchestrator, clock>>

NextMonitor ==
    Tick \/ PlatformChanges \/ IsAvailable \/ GetInfo \/ GetCachedInfo \/ Refresh
    \/ SetCacheTTL

SpecMonitor == InitMonitor /\ [][NextMonitor]_vars

\* The last call ran get_info
Probed == reply.op \in {"get_info", "get_cached_info", "refresh"} /\ reply.probed

\* C15: get_info of a battery, network or carbon monitor never raises; whenever
\* the raw probe fails (any exception, a timeout) it returns the signal's fixed
\* fallback reading (battery 85% charging, network quality 0.5, carbon
\* intensity 400 not green) with source "fallback".
C15_FallbackOnFailure ==
    Probed =>
        /\ reply.result.source # "raised"
        /\ reply.raw.status # "ok" =>
              /\ reply.result.source = "fallback"
              /\ reply.result.signal = "battery" =>
                    reply.result.level = 85 /\ reply.result.flag = TRUE
              /\ reply.result.signal = "network" =>
                    reply.result.level = Scale \div 2 /\ reply.result.flag = TRUE
              /\ reply.result.signal = "carbon" =>
                    reply.result.level = 400 * 10 /\ reply.result.flag = FALSE
        /\ reply.raw.status = "ok" => reply.result.source = reply.raw.source

\* A carbon probe that timed out, answered by the fallback reading
C15_Witness ==
    /\ reply.op = "get_info"
    /\ reply.raw.status = "timeout"
    /\ reply.result.signal = "carbon"
    /\ reply.result.source = "fallback"
    /\ reply.result.level = 400 * 10

\* C16: a get_cached_info call made less than cache_ttl after the call that
\* filled the cache, with no refresh in between, returns the cached reading
\* and does not run get_info; a call made at or after the TTL runs get_info
\* once and replaces the cached reading and its timestamp.
C16_CacheWithinTTL ==
    (reply.op = "get_cached_info" /\ reply.held) =>
        IF reply.age < mon.cache_ttl
        THEN /\ ~ reply.probed
             /\ reply.hit = {reply.result}
             /\ reply.result.timestamp >= reply.at - reply.age
             /\ reply.result.timestamp <= reply.at
             /\ mon.cache = reply.hit
             /\ mon.filled_at = reply.at - reply.age
             /\ mon.last_update_time = mon.filled_at
             /\ clock = reply.at
        ELSE /\ reply.probed
             /\ reply.hit = {}
             /\ mon.cache = {reply.result}
             /\ reply.result.timestamp = clock
             /\ mon.last_update_time = reply.at

\* A network reading re-probed exactly cache_ttl = 60 seconds after the fill
C16_Witness ==
    /\ reply.op = "get_cached_info"
    /\ reply.held
    /\ mon.class = "network"
    /\ mon.cache_ttl = 60
    /\ reply.age = 60
    /\ reply.probed
    /\ mon.cache = {reply.result}
    /\ mon.last_update_time = reply.at

\* C17: on every read the universal battery selector returns the platform
\* monitor's reading whenever that monitor is available and its probe succeeds,
\* and a simulated reading otherwise, whatever reads, is_available calls,
\* failures and recoveries came before.
C17_NativeWhenAvailable ==
    (Probed /\ mon.class = "universal") =>
        IF mon.platform.available /\ mon.platform.outcome = "ok"
        THEN reply.result.source = "native"
        ELSE reply.result.source = "simulation"

\* C29: refresh() empties the cache and returns a reading probed during the
\* call, which it does not store.  From then until the next get_cached_info the
\* cache stays empty, whatever else is called; that get_cached_info probes
\* anew, however recently the cache had been filled, and leaves its reading in
\* the cache.
C29_RefreshForcesProbe ==
    [][/\ reply'.op = "refresh" =>
             /\ reply'.probed
             /\ reply'.result.timestamp = clock'
             /\ mon'.cache = {}
       /\ (mon.refreshed /\ reply'.op # "get_cached_info") => mon'.cache = {}
       /\ (mon.refreshed /\ reply'.op = "get_cached_info") =>
             /\ reply'.probed
             /\ reply'.result.timestamp = clock'
             /\ mon'.cache = {reply'.result}
             /\ ~ mon'.refreshed]_vars

\* get_cached_info has probed although the cache had been filled less than
\* cache_ttl before: a refresh came in between
C29_Witness ==
    /\ reply.op = "get_cached_info"
    /\ reply.probed
    /\ ~ reply.held
    /\ reply.age >= 0
    /\ reply.age < mon.cache_ttl
    /\ mon.cache = {reply.result}

\* ------------------------------------------------------------------
\* api_server.py and src/api/server.py: GET /decisions  (SpecPaging)
\* ------------------------------------------------------------------
\* The server's own list decision_history holds one dict per decision served;
\* an entry is named here by its position of arrival.  The handler is a
\* function of that list and of the two query parameters.

MaxPage == 3                     \* the list holds up to MaxPage entries
LimitCap == 1000                 \* Query(100, ge=1, le=1000)

\* The server's decision_history with n entries
ServedDecisions(n) == [i \in 1 .. n |-> i]

\* The query parameters tried: inside and outside what Query(...) admits
Offsets == (0 - 1) .. (MaxPage + 1)
Limits == (0 .. (MaxPage + 1)) \cup {LimitCap, LimitCap + 1}

\* Python's lst[start:end] for 0 <= start and 0 <= end
Slice(lst, start, end) == SubSeq(lst, Min(start, Len(lst)) + 1, Min(end, Len(lst)))

\* get_decisions with the end of the page one entry further (a mutant)
GetDecisionsOneMore(history, offset, limit) ==
    LET start == Min(offset, Len(history))
        end == Min(start + limit + 1, Len(history))
    IN  [status |-> 200, total |-> Len(history), offset |-> offset, limit |-> limit,
         decisions |-> Slice(history, start, end)]

\* get_decisions: the body of the handler
get_decisions(history, offset, limit) ==
    LET start == Min(offset, Len(history))
        end == Min(start + limit, Len(history))
    IN  [status |-> 200, total |-> Len(history), offset |-> offset, limit |-> limit,
         decisions |-> Slice(history, start, end)]

\* What FastAPI answers when a query parameter fails its Query(...) constraint
Unprocessable(offset, limit) ==
    [status |-> 422, total |-> 0, offset |-> offset, limit |-> limit,
     decisions |-> <<>>]

InitPaging ==
    /\ phase = "new"
    /\ config_data = NoFile
    /\ config = OrchestratorConfig(1)
    /\ monitors = [s \in Signals |-> "absent"]
    /\ heap = (0 :> <<>>)
    /\ history_ref = 0
    /\ now = 0
    /\ returned = NoDecision
    /\ appended = <<>>
    /\ pc = [t \in Threads |-> "idle"]
    /\ frame = [t \in Threads |-> NoFrame]
    /\ probe \in {[stage |-> "served", decision_history |-> ServedDecisions(n)] :
                    n \in 0 .. MaxPage}
    /\ observed = NoObservation
    /\ mon = NoMonitor
    /\ clock = 0
    /\ reply = NoReply

\* GET /decisions?limit=..&offset=..
GetDecisions ==
    /\ probe.stage = "served"
    /\ \E offset \in Offsets, limit \in Limits :
        reply' = [op |-> "get_decisions",
                  response |->
                      IF limit >= 1 /\ limit <= LimitCap /\ offset >= 0
                      THEN get_decisions(probe.decision_history, offset, limit)
                      ELSE Unprocessable(offset, limit)]
    /\ UNCHANGED <<Orchestrator, mon, clock>>

NextPaging == GetDecisions

SpecPaging == InitPaging /\ [][NextPaging]_vars

\* C20: pagination returns the contiguous slice history[start:end] with
\* start = min(offset, length) and end = min(start + limit, length), and
\* total = length; an offset at or beyond the length gives an empty slice
\* with the right total; the slice never has more than limit entries.
C20_PageIsSlice ==
    (reply.op = "get_decisions" /\ reply.response.status = 200) =>
        LET history == probe.decision_history
            page == reply.response
            start == IF page.offset < Len(history) THEN page.offset ELSE Len(history)
            end == IF start + page.limit < Len(history) THEN start + page.limit
                   ELSE Len(history)
        IN  /\ page.total = Len(history)
            /\ Len(page.decisions) = end - start
            /\ \A i \in 1 .. Len(page.decisions) : page.decisions[i] = history[start + i]
            /\ Len(page.decisions) <= page.limit
            /\ page.offset >= Len(history) => page.decisions = <<>>

\* A page cut short by the end of the list: offset + limit beyond the length
C20_Witness ==
    /\ reply.op = "get_decisions"
    /\ reply.response.status = 200
    /\ reply.response.offset = 1
    /\ reply.response.limit = MaxPage
    /\ Len(probe.decision_history) = MaxPage
    /\ reply.response.total = MaxPage
    /\ Len(reply.response.decisions) = MaxPage - 1
    /\ reply.response.decisions[1] = probe.decision_history[2]

\* ------------------------------------------------------------------
\* make_decision called again and again on readable monitors (SpecReplay)
\* ------------------------------------------------------------------

\* A constructed orchestrator (the default configuration, one whose carbon
\* weight is 0, one with the battery bounds inverted; the smallest and the
\* largest history) whose three monitors are the factory's or were all
\* replaced by readable ones
InitReplay ==
    /\ phase = "running"
    /\ config_data \in {NoFile, FileNegativeWeight, FileInverted}
    /\ config \in {_create_config_from_data(config_data, OrchestratorConfig(size)) :
                     size \in {1, MaxHistorySize}}
    /\ monitors \in {[s \in Signals |-> "factory"], [s \in Signals |-> "stub"]}
    /\ heap = (0 :> <<>>)
    /\ history_ref = 0
    /\ now = 0
    /\ returned = NoDecision
    /\ appended = <<>>
    /\ pc = [t \in Threads |-> "idle"]
    /\ frame = [t \in Threads |-> NoFrame]
    /\ probe = NoProbe
    /\ observed = NoObservation
    /\ mon = NoMonitor
    /\ clock = 0
    /\ reply = NoReply

\* One call more than Spec makes
MakeDecisionAgain == MakeDecisionUpTo(MaxCalls + 1)

NextReplay == MakeDecisionAgain

SpecReplay == InitReplay /\ [][NextReplay]_vars

\* Two decisions made from the same monitor values
SameInputs(d, e) ==
    d.battery = e.battery /\ d.network = e.network /\ d.carbon = e.carbon

InitScenarios ==
    /\ phase = "running"
    /\ config_data = NoFile
    /\ config \in {OrchestratorConfig(size) : size \in 1 .. MaxHistorySize}
    /\ monitors = [s \in Signals |-> "scripted"]
    /\ heap = (0 :> <<>>)
    /\ history_ref = 0
    /\ now = 0
    /\ returned = NoDecision
    /\ appended = <<>>
    /\ pc = [t \in Threads |-> "idle"]
    /\ frame = [t \in Threads |-> NoFrame]
    /\ probe = NoProbe
    /\ observed = NoObservation
    /\ mon = NoMonitor
    /\ clock = 0
    /\ reply = NoReply

NextScenarios == MakeDecision

SpecScenarios == InitScenarios /\ [][NextScenarios]_vars

\* The words of the explanations make_decision writes, in lower case
ExplanationWords ==
    ("Battery too low for edge processing"
        :> <<"battery", "too", "low", "for", "edge", "processing">>)
    @@ ("High battery and good network for edge processing"
        :> <<"high", "battery", "and", "good", "network", "for", "edge", "processing">>)
    @@ ("Good conditions for hybrid processing"
        :> <<"good", "conditions", "for", "hybrid", "processing">>)
    @@ ("Poor conditions, defer processing"
        :> <<"poor", "conditions,", "defer", "processing">>)

\* phrase in explanation.lower(), for a phrase of whole words
Mentions(explanation, phrase) ==
    LET words == ExplanationWords[explanation]
    IN  \E i \in 1 .. Len(words) :
            /\ i + Len(phrase) - 1 <= Len(words)
            /\ SubSeq(words, i, i + Len(phrase) - 1) = phrase

\* C22: a decision made with a critically low battery (5%), a green grid and a
\* good network (0.9) selects the edge execution mode, and its explanation
\* mentions "critical battery" or "hard constraint".
C22_CriticalBatteryEdge ==
    \A d \in Decided :
        (d.battery = 50 /\ d.network = 900 /\ d.carbon = 100) =>
            /\ d.recommended_mode = EDGE_ONLY
            /\ \/ Mentions(d.explanation, <<"critical", "battery">>)
               \/ Mentions(d.explanation, <<"hard", "constraint">>)

\* C23: with the default weights a decision made with battery and network
\* above one half and a low-carbon grid (intensity below one half) has a score
\* above 0.5, and one made with battery and network below one half and a
\* high-carbon grid has a score below 0.5; so for 0.9 / 0.9 / green and for
\* 0.2 / 0.2 / dirty.
C23_ScoreFollowsConditions ==
    config.weights = DefaultWeights =>
        \A d \in Decided :
            /\ (d.battery > Half /\ d.network > Half /\ d.carbon < Half)
                  => d.score > One \div 2
            /\ (d.battery < Half /\ d.network < Half /\ d.carbon > Half)
                  => d.score < One \div 2
            /\ (d.battery = 900 /\ d.network = 900 /\ d.carbon = 100)
                  => d.score > One \div 2
            /\ (d.battery = 200 /\ d.network = 200 /\ d.carbon = 900)
                  => d.score < One \div 2

\* The least favourable of the favourable conditions: 0.51 / 0.51 / 0.49
C23_Witness ==
    /\ config.weights = DefaultWeights
    /\ returned.timestamp > 0
    /\ returned.battery = 510 /\ returned.network = 510 /\ returned.carbon = 490
    /\ returned.score > One \div 2
    /\ returned.score = 510 * 400 + 510 * 300 + 510 * 300

\* ------------------------------------------------------------------
\* get_statistics over histories of different decisions (SpecStatistics)
\* ------------------------------------------------------------------

\* A constructed orchestrator with the default configuration, a history of one
\* entry or of MaxHistorySize + 1, and a battery monitor make_decision can read
InitStatistics ==
    /\ phase = "running"
    /\ config_data = NoFile
    /\ config \in {OrchestratorConfig(size) : size \in {1, MaxHistorySize + 1}}
    /\ monitors = [s \in Signals |-> IF s = "battery" THEN "stub" ELSE "factory"]
    /\ heap = (0 :> <<>>)
    /\ history_ref = 0
    /\ now = 0
    /\ returned = NoDecision
    /\ appended = <<>>
    /\ pc = [t \in Threads |-> "idle"]
    /\ frame = [t \in Threads |-> NoFrame]
    /\ probe = NoProbe
    /\ observed = NoObservation
    /\ mon = NoMonitor
    /\ clock = 0
    /\ reply = NoReply

NextStatistics == MakeDecisionRepeatedly \/ GetStatistics

SpecStatistics == InitStatistics /\ [][NextStatistics]_vars

\* The decisions still retained: the last decision_history_size ones appended
Retained == LastEntries(appended, config.decision_history_size)

\* How many of the decisions lst recommend mode
ModeCount(lst, mode) ==
    Cardinality({i \in DOMAIN lst : lst[i].recommended_mode = mode})

\* C24: statistics cover the full retained window and nothing else.  For every
\* non-empty history total_decisions is the history length, each mode's count
\* is the number of retained decisions with that mode, the counts sum to
\* total_decisions, and min_score <= average_score <= max_score; evicted
\* decisions contribute nothing.
C24_StatisticsOverWindow ==
    (reply.op = "get_statistics" /\ decision_history # <<>>) =>
        LET stats == reply.result
            counts == stats.mode_distribution
        IN  /\ stats.total_decisions = Len(decision_history)
            /\ stats.total_decisions = Len(Retained)
            /\ \A mode \in ExecutionMode :
                  /\ <<mode, ModeCount(decision_history, mode)>> \in counts
                  /\ <<mode, ModeCount(Retained, mode)>> \in counts
            /\ Cardinality(counts) = Cardinality(ExecutionMode)
            /\ DictSum(counts) = stats.total_decisions
            /\ stats.min_score <= stats.average_score
            /\ stats.average_score <= stats.max_score

\* ------------------------------------------------------------------
\* carbon_monitor.py: the carbon monitors and their zones  (SpecCarbon)
\* ------------------------------------------------------------------
\* "carbon" is the ElectricityMapsMonitor (its raw probe asks the API),
\* "simulated_carbon" the SimulatedCarbonMonitor.  The simulator computes in
\* floats; the model computes in thousandths of a gCO2/kWh, exact for the
\* times and random draws tried.

CarbonClasses == {"carbon", "simulated_carbon"}

\* The zones asked for: some the simulator knows, one it does not
Zones == {"IN", "US-CAL", "DE", "SE", "XX"}

\* SimulatedCarbonMonitor.zone_intensities with its .get(zone, 400)
zone_intensities(zone) ==
    CASE zone = "IN" -> 650
      [] zone = "US-CAL" -> 250
      [] zone = "DE" -> 350
      [] zone = "FR" -> 50
      [] zone = "SE" -> 30
      [] zone = "CN" -> 700
      [] zone = "GB" -> 200
      [] OTHER -> 400

\* Seconds of a day and of an hour
DaySeconds == 24 * 60 * 60
HourSeconds == 60 * 60

\* The times of day tried: midnight, 2 PM (the peak), 9 PM
StartTimes == {0, 14 * HourSeconds, 21 * HourSeconds}

\* What random.uniform(-0.1, 0.1) may return, in ten-thousandths
RandomDraws == {0 - 1000, 0 - 999, 0 - 997, 0, 1000}

\* SimulatedCarbonMonitor._get_raw_carbon_info up to "intensity = max(10,
\* intensity)", in thousandths
simulated_intensity(zone, current_time, draw) ==
    LET base_intensity == zone_intensities(zone)
        second_of_day == current_time % DaySeconds
        peak == 14 * HourSeconds
        \* 0.3 * base_intensity * (1 - abs(hour_of_day - 14) / 14)
        by_day == (3 * base_intensity * (peak - Abs(second_of_day - peak)))
                  \div (peak \div 100)
        daily_variation ==
            IF second_of_day < 4 * HourSeconds \/ second_of_day > 20 * HourSeconds
            THEN 0 - (by_day \div 2)
            ELSE by_day
        random_variation == (draw * base_intensity) \div 10
        intensity == base_intensity * Scale + daily_variation + random_variation
    IN  Max(10 * Scale, intensity)

\* SimulatedCarbonMonitor._get_raw_carbon_info: is_green is decided on the
\* intensity as computed, the dict reports round(intensity, 1)
simulated_carbon_raw(zone, current_time, draw) ==
    LET intensity == simulated_intensity(zone, current_time, draw)
    IN  RawResult("ok", "simulation", RoundRatio(intensity, 100),
                  intensity <= GreenIntensity * Scale)

\* A carbon monitor at some time of day
InitCarbon ==
    /\ phase = "new"
    /\ config_data = NoFile
    /\ config = OrchestratorConfig(1)
    /\ monitors = [s \in Signals |-> "absent"]
    /\ heap = (0 :> <<>>)
    /\ history_ref = 0
    /\ now = 0
    /\ returned = NoDecision
    /\ appended = <<>>
    /\ pc = [t \in Threads |-> "idle"]
    /\ frame = [t \in Threads |-> NoFrame]
    /\ probe = NoProbe
    /\ observed = NoObservation
    /\ mon \in {NewMonitor(class, pl) : class \in CarbonClasses, pl \in Platforms}
    /\ clock \in StartTimes
    /\ reply = NoReply

\* monitor.get_info(zone) of a carbon monitor
GetCarbonInfo ==
    /\ mon.class \in CarbonClasses
    /\ \E zone \in Zones :
        \E raw \in IF mon.class = "simulated_carbon"
                   THEN {simulated_carbon_raw(zone, clock, draw) : draw \in RandomDraws}
                   ELSE native_raw("carbon", mon.platform) :
            reply' = [MonitorReply("get_info", TRUE, get_info("carbon", raw, clock),
                                   raw, {})
                      EXCEPT !.op = "get_carbon_info"] @@ [zone |-> zone]
    /\ UNCHANGED <<Orchestrator, mon, clock>>

NextCarbon == GetCarbonInfo \/ PlatformChanges

SpecCarbon == InitCarbon /\ [][NextCarbon]_vars

\* C25: in every reading a carbon monitor's get_info returns (from the API,
\* the simulator or the fallback) is_green is true exactly when the intensity
\* reported in that reading is at most 300 gCO2/kWh, and a simulated reading
\* never reports an intensity below 10.
C25_GreenIffAtMost300 ==
    reply.op = "get_carbon_info" =>
        /\ reply.result.flag <=> reply.result.level <= 300 * 10
        /\ reply.result.source = "simulation" => reply.result.level >= 10 * 10


\* ------------------------------------------------------------------
\* The read operations and the lists they hand out (SpecReads)
\* ------------------------------------------------------------------
\* A list a read operation returns is an object of its own in the heap; the
\* caller holds its id (reply.ref) and may change the list afterwards.

\* A constructed orchestrator with the default configuration, next to a server
\* whose own list holds no entry or MaxPage entries
InitReads ==
    /\ phase = "running"
    /\ config_data = NoFile
    /\ config \in {OrchestratorConfig(size) : size \in {1, MaxHistorySize}}
    /\ monitors = [s \in Signals |-> "factory"]
    /\ heap = (0 :> <<>>)
    /\ history_ref = 0
    /\ now = 0
    /\ returned = NoDecision
    /\ appended = <<>>
    /\ pc = [t \in Threads |-> "idle"]
    /\ frame = [t \in Threads |-> NoFrame]
    /\ probe \in {[stage |-> "served", decision_history |-> ServedDecisions(n)] :
                    n \in {0, MaxPage}}
    /\ observed = NoObservation
    /\ mon = NoMonitor
    /\ clock = 0
    /\ reply = NoReply

\* A new list object holding contents, under the first id not in use
NewList(objects, contents) ==
    LET id == CHOOSE i \in 0 .. Cardinality(DOMAIN objects) :
                  /\ i \notin DOMAIN objects
                  /\ \A j \in 0 .. i - 1 : j \in DOMAIN objects
    IN  [heap |-> objects @@ (id :> contents), ref |-> id]

\* get_recent_decisions handing out self.decision_history itself whenever the
\* slice is the whole list (a mutant)
RecentDecisionsShared(objects, ref, count) ==
    IF get_recent_decisions(objects[ref], count) = objects[ref]
    THEN [heap |-> objects, ref |-> ref]
    ELSE NewList(objects, get_recent_decisions(objects[ref], count))

\* decision_engine.py get_recent_decisions on the heap: the slice, and the []
\* of an empty history, are new list objects
RecentDecisionsObject(objects, ref, count) ==
    NewList(objects, get_recent_decisions(objects[ref], count))

\* orchestrator.get_recent_decisions(count); the caller keeps the list and
\* lets go of the one it held before
GetRecentDecisionsList ==
    /\ phase = "running"
    /\ \E count \in RecentCounts :
        LET made == RecentDecisionsObject(Collect(heap, history_ref, frame),
                                          history_ref, count)
        IN  /\ heap' = made.heap
            /\ reply' = [op |-> "get_recent_decisions", count |-> count,
                         ref |-> made.ref, result |-> made.heap[made.ref]]
    /\ UNCHANGED <<phase, config_data, config, monitors, history_ref, now,
                   returned, appended, pc, frame, probe, observed, mon, clock>>

\* The caller changes the list it was given: clear(), pop(0) or append(None)
MutateReturnedList ==
    /\ reply.op = "get_recent_decisions"
    /\ \E change \in {"clear", "pop", "append"} :
        /\ change = "pop" => heap[reply.ref] # <<>>
        /\ heap' = [heap EXCEPT ![reply.ref] =
                       CASE change = "clear" -> <<>>
                         [] change = "pop" -> Tail(@)
                         [] change = "append" -> Append(@, NoDecision)]
    /\ reply' = [reply EXCEPT !.op = "mutated"]
    /\ UNCHANGED <<phase, config_data, config, monitors, history_ref, now,
                   returned, appended, pc, frame, probe, observed, mon, clock>>

NextReads ==
    \/ MakeDecisionRepeatedly
    \/ GetRecentDecisionsList
    \/ MutateReturnedList
    \/ GetStatistics
    \/ GetDecisions

SpecReads == InitReads /\ [][NextReads]_vars

\* C26: get_recent_decisions, get_statistics and GET /decisions leave the
\* history they read as it was, entry for entry, and so does every change the
\* caller makes to the list get_recent_decisions returned: that list is a copy.
C26_ReadsLeaveHistory ==
    [][reply'.op \in {"get_recent_decisions", "get_statistics", "get_decisions",
                      "mutated"}
          => /\ decision_history' = decision_history
             /\ probe'.decision_history = probe.decision_history]_vars

\* The caller was given the whole history of two decisions and has changed its
\* list; the stored history is still what was returned
C26_Witness ==
    /\ reply.op = "mutated"
    /\ Len(reply.result) = 2
    /\ heap[reply.ref] # reply.result
    /\ decision_history = reply.result
    /\ decision_history = Retained


\* ------------------------------------------------------------------
\* factory.py and _initialize_monitors: which monitor class is registered
\* (SpecSelection)
\* ------------------------------------------------------------------
\* An environment is what the selection depends on: platform.system(), whether
\* speedtest can be imported, whether ELECTRICITY_MAPS_API_KEY is set, and the
\* three use_real_* fields of the configuration.

Systems == {"Darwin", "Linux", "Windows", "FreeBSD"}

SimulatedClass ==
    [battery |-> "SimulatedBatteryMonitor", network |-> "SimulatedNetworkMonitor",
     carbon |-> "SimulatedCarbonMonitor"]

\* factory.py create_battery_monitor
create_battery_monitor(use_universal, use_simulation, system) ==
    IF use_simulation THEN "SimulatedBatteryMonitor"
    ELSE IF use_universal THEN "UniversalBatteryMonitor"
    ELSE CASE system = "Darwin" -> "MacOSBatteryMonitor"
           [] system = "Linux" -> "LinuxBatteryMonitor"
           [] system = "Windows" -> "WindowsBatteryMonitor"
           [] OTHER -> "SimulatedBatteryMonitor"

\* factory.py create_network_monitor; PingMonitor() does not raise
create_network_monitor(use_speedtest, fallback_to_ping, use_simulation, speedtest) ==
    IF use_simulation THEN "SimulatedNetworkMonitor"
    ELSE IF use_speedtest /\ speedtest THEN "SpeedTestMonitor"
    ELSE IF fallback_to_ping THEN "PingMonitor"
    ELSE "SimulatedNetworkMonitor"

\* factory.py create_carbon_monitor; api_key is "none" for None.  An
\* ElectricityMapsMonitor built with a key is available.
create_carbon_monitor(api_key, use_simulation_if_no_key, use_simulation) ==
    IF use_simulation THEN "SimulatedCarbonMonitor"
    ELSE IF api_key # "none" THEN "ElectricityMapsMonitor"
    ELSE IF use_simulation_if_no_key THEN "SimulatedCarbonMonitor"
    ELSE "ValueError"

\* decision_engine.py _initialize_monitors.  A UniversalBatteryMonitor is
\* always available (its simulator is), and none of the factory calls raises
\* with the arguments given here.
_initialize_monitors(use_real, env) ==
    [battery |->
        IF use_real.battery THEN create_battery_monitor(TRUE, FALSE, env.system)
        ELSE create_battery_monitor(FALSE, FALSE, env.system),
     network |->
        IF use_real.network
        THEN create_network_monitor(TRUE, TRUE, FALSE, env.speedtest)
        ELSE create_network_monitor(FALSE, FALSE, FALSE, env.speedtest),
     carbon |->
        IF use_real.carbon THEN create_carbon_monitor(env.api_key, TRUE, FALSE)
        ELSE create_carbon_monitor("none", TRUE, FALSE)]

InitSelection ==
    /\ phase = "new"
    /\ config_data = NoFile
    /\ config = OrchestratorConfig(1)
    /\ monitors = [s \in Signals |-> "absent"]
    /\ heap = (0 :> <<>>)
    /\ history_ref = 0
    /\ now = 0
    /\ returned = NoDecision
    /\ appended = <<>>
    /\ pc = [t \in Threads |-> "idle"]
    /\ frame = [t \in Threads |-> NoFrame]
    /\ probe \in {[stage |-> "environment",
                   use_real |-> [battery |-> b, network |-> n, carbon |-> c],
                   env |-> [system |-> system, speedtest |-> speedtest,
                            api_key |-> api_key]] :
                    b \in BOOLEAN, n \in BOOLEAN, c \in BOOLEAN,
                    system \in Systems, speedtest \in BOOLEAN,
                    api_key \in {"none", "key"}}
    /\ observed = NoObservation
    /\ mon = NoMonitor
    /\ clock = 0
    /\ reply = NoReply

\* self.monitors = self._initialize_monitors()
InitializeMonitors ==
    /\ probe.stage = "environment"
    /\ probe' = [stage |-> "initialized", use_real |-> probe.use_real,
                 env |-> probe.env,
                 monitors |-> _initialize_monitors(probe.use_real, probe.env)]
    /\ UNCHANGED <<phase, config_data, config, monitors, heap, history_ref, now,
                   returned, appended, pc, frame, observed, mon, clock, reply>>

NextSelection == InitializeMonitors

SpecSelection == InitSelection /\ [][NextSelection]_vars

\* C28: a signal whose use_real_* field is false gets the simulated monitor of
\* that signal registered, never a platform-native or external-API one.
C28_DisabledMeansSimulated ==
    probe.stage = "initialized" =>
        \A s \in Signals :
            ~ probe.use_real[s] => probe.monitors[s] = SimulatedClass[s]


\* ------------------------------------------------------------------
\* battery_monitor.py SimulatedBatteryMonitor (SpecSimulatedBattery)
\* ------------------------------------------------------------------
\* The stored percentage is an integer number of units of 1 / PercentUnit
\* percent: one second of discharging at discharge_rate (0.05 % per minute)
\* takes one unit, one second of charging at charge_rate (0.5 % per minute)
\* adds ChargePerSecond units.

PercentUnit == 60 * 20
ChargePerSecond == 10
FullPercentage == 100 * PercentUnit              \* 100
NearlyFull == (999 * PercentUnit) \div 10        \* 99.9
LowPercentage == 20 * PercentUnit                \* 20
CriticalPercentage == 5 * PercentUnit            \* 5

\* initial_percentage: 0, 0.5, 20.5, 85 (the default), 99.5 and 100
InitialPercentages ==
    {0, PercentUnit \div 2, LowPercentage + PercentUnit \div 2, 85 * PercentUnit,
     FullPercentage - PercentUnit \div 2, FullPercentage}

\* Seconds between two reads: none, a minute, twenty minutes
ReadGaps == {0, 60, 20 * 60}

\* SimulatedBatteryMonitor.__init__
SimulatedBatteryMonitor(initial_percentage, current_time) ==
    [class |-> "simulated_battery", percentage |-> initial_percentage,
     is_charging |-> TRUE, last_update |-> current_time, reads |-> 0]

\* _get_raw_battery_info up to the random flip: drain or charge over the time
\* elapsed, "stop charging when full", "start charging when low"
drift(m, current_time) ==
    LET time_delta == current_time - m.last_update
    IN  IF m.is_charging
        THEN LET p == Min(FullPercentage, m.percentage + ChargePerSecond * time_delta)
             IN  IF p >= NearlyFull
                 THEN [m EXCEPT !.percentage = FullPercentage, !.is_charging = FALSE]
                 ELSE [m EXCEPT !.percentage = p]
        ELSE LET p == Max(0, m.percentage - time_delta)
             IN  IF p <= LowPercentage
                 THEN [m EXCEPT !.percentage = p, !.is_charging = TRUE]
                 ELSE [m EXCEPT !.percentage = p]

\* _get_raw_battery_info: the monitor it leaves.  flip is the outcome of
\* random.random() < 0.05
simulated_battery_step(m, current_time, flip) ==
    LET d == drift(m, current_time)
    IN  [d EXCEPT !.is_charging = IF flip THEN ~ d.is_charging ELSE d.is_charging,
                  !.last_update = current_time,
                  !.reads = m.reads + 1]

\* _get_raw_battery_info: the dict it returns, percentage in tenths
simulated_battery_raw(m) ==
    [percentage |-> RoundRatio(m.percentage, PercentUnit \div 10),
     is_charging |-> m.is_charging,
     status |-> IF m.percentage >= NearlyFull THEN "full"
                ELSE IF m.percentage <= CriticalPercentage THEN "critical"
                ELSE IF m.is_charging THEN "charging" ELSE "discharging",
     source |-> "simulation"]

InitSimulatedBattery ==
    /\ phase = "new"
    /\ config_data = NoFile
    /\ config = OrchestratorConfig(1)
    /\ monitors = [s \in Signals |-> "absent"]
    /\ heap = (0 :> <<>>)
    /\ history_ref = 0
    /\ now = 0
    /\ returned = NoDecision
    /\ appended = <<>>
    /\ pc = [t \in Threads |-> "idle"]
    /\ frame = [t \in Threads |-> NoFrame]
    /\ probe = NoProbe
    /\ observed = NoObservation
    /\ mon \in {SimulatedBatteryMonitor(p, 0) : p \in InitialPercentages}
    /\ clock = 0
    /\ reply = NoReply

\* monitor._get_raw_battery_info(), some time after the read before
ReadSimulatedBattery ==
    /\ mon.reads < MaxReads
    /\ \E gap \in ReadGaps, flip \in BOOLEAN :
        /\ clock' = clock + gap
        /\ mon' = simulated_battery_step(mon, clock + gap, flip)
        /\ reply' = [op |-> "get_raw_battery_info",
                     result |-> simulated_battery_raw(
                                    simulated_battery_step(mon, clock + gap, flip))]
    /\ UNCHANGED Orchestrator

NextSimulatedBattery == ReadSimulatedBattery

SpecSimulatedBattery == InitSimulatedBattery /\ [][NextSimulatedBattery]_vars

\* C30: over every read of a SimulatedBatteryMonitor the stored percentage
\* stays in [0,100]; it does not rise in a read that began discharging and
\* does not fall in one that began charging; a charging read that reaches 99.9
\* or more leaves exactly 100 and the monitor not charging; a discharging read
\* that reaches 20 or less leaves the monitor charging.
C30_SimulatedBatteryDrift ==
    [][mon'.reads = mon.reads + 1 =>
          /\ mon'.percentage >= 0
          /\ mon'.percentage <= FullPercentage
          /\ ~ mon.is_charging => mon'.percentage <= mon.percentage
          /\ mon.is_charging => mon'.percentage >= mon.percentage
          /\ (mon.is_charging /\ mon'.percentage >= NearlyFull) =>
                (mon'.percentage = FullPercentage /\ ~ mon'.is_charging)
          /\ (~ mon.is_charging /\ mon'.percentage <= LowPercentage) =>
                mon'.is_charging]_vars

=============================================================================
